---- MODULE Spec2Model ----
(***************************************************************************)
(* State-machine model of floss/decoding_manager.py: the emulation-control *)
(* core of FLOSS (ApiMonitor return-address guard, allocation shims,       *)
(* ExitProcess hook, delta collector, emulate_function).                   *)
(*                                                                         *)
(* The vivisect emulator and the viv_utils driver are the environment: the *)
(* instruction the engine retires next, the words it reads from the stack  *)
(* and the faults it raises are drawn from small sets.  Everything the     *)
(* module itself computes (hooks, monitor, orchestration) is translated    *)
(* from the source.                                                        *)
(***************************************************************************)
EXTENDS Integers, Sequences, FiniteSets, TLC

VARIABLES
    phase,      \* "RUNNING" | "DONE" | "RAISED": position in emulate_function
    outcome,    \* how driver.runToVa ended ("none" while running)
    logged,     \* what emulate_function's except clause logged
    pc,         \* emu.getProgramCounter()
    sp,         \* emu.getStackCounter()
    eax,        \* return-value register written by callconv.execCallReturn
    stack,      \* stack memory: [words: address -> word, top: first unmapped]
    maps,       \* memory maps added by the shims (emu.addMemoryMap), in order
    data,       \* abstract version of the memory written by emulated code
    icount,     \* instructions retired by driver.runToVa
    heap_addr,  \* _heap_addr of each allocation shim instance
    pre_snap,   \* emulate_function's pre_snap
    deltas,     \* delta_collector.deltas
    result,     \* value returned by emulate_function (<<>> until it returns)
    entry,      \* history: the engine state emulate_function was entered in
    hooked,     \* history: one record per call handed to the hook chain
    last_ret,   \* history: the most recent posthook event
    run         \* history: number of the current call of emulate_function

vars == <<phase, outcome, logged, pc, sp, eax, stack, maps, data, icount, heap_addr,
          pre_snap, deltas, result, entry, hooked, last_ret, run>>

-----------------------------------------------------------------------------
(* Bounds of the model *)

\* max_instruction_count handed to emulate_function
MaxInstr == 2

\* number of calls of emulate_function on the same engine
MaxRuns == 2

-----------------------------------------------------------------------------
(* Program constants *)

\* RtlAllocateHeapHook.__init__: self._heap_addr = 0x69690000
HeapBase == 1768554496
\* RtlAllocateHeapHook.MAX_ALLOCATION_SIZE = 10 * 1024 * 1024
MAX_ALLOCATION_SIZE == 10 * 1024 * 1024
\* _allocate_mem: round(size, 0x1000)
PageSize == 4096
\* MallocHeap.hook: self._allocate_mem(emu, 0x100)
MallocSize == 256
\* _allocate_mem: "\x00" * (size + 4) handed to addMemoryMap
MapSlack == 4
\* _fix_return: NUM_ADDRESSES = 4
NUM_ADDRESSES == 4
\* _check_return: self.getStackValue(emu, -4)
RetValueOffset == -4
\* stack offsets the shims read the requested size from
RtlSizeOffset == 12
AllocSizeOffset == 8
MallocSizeOffset == 4

-----------------------------------------------------------------------------
(* The emulated image: inputs of emulate_function *)

\* emu.getPointerSize() of the 32-bit x86 emulator
pointer_size == 4

\* fva: start of the function under emulation; the workspace's function
\* index knows the instructions of two functions
Image == [fva |-> 4198400, caller |-> 4202496, fsize |-> 64,
          import_va |-> 16781312, tainted_va |-> 16785408,
          local_va |-> 4206592, garbage |-> 195948557,
          sp0 |-> 1244928]

\* vw.getCallers(function_start): the call instructions targeting it, with
\* the size emu.parseOpcode reports for each
Callers(function_start) ==
    IF function_start = Image.fva
    THEN {[va |-> Image.caller + 8, size |-> 5],
          [va |-> Image.caller + 32, size |-> 2]}
    ELSE {}

\* the two valid return targets of the function under emulation
R1 == Image.caller + 8 + 5
R2 == Image.caller + 32 + 2
\* the return address emulate_function runs to
return_address == R1

\* a word that cannot be read (unmapped memory): the read raises
Unreadable == 0 - 1

NoFunction == 0 - 2

\* function_index[va]: KeyError (NoFunction) for an address outside every
\* known function
function_index(va) ==
    IF va >= Image.fva /\ va < Image.fva + Image.fsize THEN Image.fva
    ELSE IF va >= Image.caller /\ va < Image.caller + Image.fsize
         THEN Image.caller
         ELSE NoFunction

\* emu.getVivTaint(va): None, or a taint whose type is t[1]
getVivTaint(va) ==
    IF va = Image.import_va THEN "import"
    ELSE IF va = Image.tainted_va THEN "apicall"
    ELSE "None"

-----------------------------------------------------------------------------
(* Engine primitives the module calls *)

\* emu.readMemoryFormat(addr, "<P")[0]: the word at addr; Unreadable stands
\* for the exception an unmapped address raises
readMemoryFormat(emu, addr) ==
    IF addr >= emu.stack.top THEN Unreadable
    ELSE IF addr \in DOMAIN emu.stack.words THEN emu.stack.words[addr]
         ELSE Image.garbage

\* Monitor.getStackValue(emu, offset) and driver.getStackValue(offset)
getStackValue(emu, offset) == readMemoryFormat(emu, emu.sp + offset)

\* callconv.execCallReturn(emu, value, argc): set the return value, pop the
\* return address into the program counter and, for a callee-cleanup
\* convention, drop the argc arguments
execCallReturn(emu, call, value) ==
    [emu EXCEPT !.eax = value,
                !.pc = call.ret_to,
                !.sp = emu.sp + pointer_size
                       + (IF call.stdcall THEN call.argc * pointer_size ELSE 0)]

-----------------------------------------------------------------------------
(* Snapshot, Delta *)

\* make_snapshot(emu)
make_snapshot(emu) ==
    [memory |-> [stack |-> emu.stack.words, maps |-> emu.maps,
                 data |-> emu.data],
     sp |-> emu.sp, pc |-> emu.pc]

Delta(pre, post) == [pre_snap |-> pre, post_snap |-> post]

\* mutant of is_import: every tainted address counts as imported
is_import_any_taint(va) == getVivTaint(va) # "None"

\* is_import(emu, va)
is_import(va) ==
    LET t == getVivTaint(va)
    IN  IF t = "None" THEN FALSE ELSE t = "import"

-----------------------------------------------------------------------------
(* Hooks.  A hook returns "True" (handled), "None", or raises:            *)
(* "UnsupportedFunction", "StopEmulation", "Exception".                    *)

HookResult(ret_, emu_) == [ret |-> ret_, emu |-> emu_]

\* GetProcessHeapHook.hook
GetProcessHeapHook_hook(call, emu) ==
    IF call.callname = "kernel32.GetProcessHeap"
    THEN HookResult("True", execCallReturn(emu, call, 0))
    ELSE HookResult("UnsupportedFunction", emu)

\* round(i, size)
round(i, size) ==
    IF i % size = 0 THEN i ELSE i + (i - (i % size))

\* mutant of _allocate_mem: the cursor is state shared by the shim
\* instances, every instance's cursor advances
allocate_mem_shared_cursor(emu, shim, size) ==
    LET rounded == round(size, PageSize)
        granted == IF rounded > MAX_ALLOCATION_SIZE
                   THEN MAX_ALLOCATION_SIZE ELSE rounded
        va      == emu.heap_addr[shim]
    IN  [va  |-> va,
         emu |-> [emu EXCEPT
                    !.maps = Append(@, [va |-> va, size |-> granted + MapSlack,
                                        zeroed |-> granted]),
                    !.heap_addr = [h \in DOMAIN @ |-> @[h] + granted]]]

\* RtlAllocateHeapHook._allocate_mem, on the shim instance named shim:
\* the returned va and the engine state after the mapping
allocate_mem(emu, shim, size) ==
    LET rounded == round(size, PageSize)
        granted == IF rounded > MAX_ALLOCATION_SIZE
                   THEN MAX_ALLOCATION_SIZE ELSE rounded
        va      == emu.heap_addr[shim]
    IN  [va  |-> va,
         emu |-> [emu EXCEPT
                    !.maps = Append(@, [va |-> va, size |-> granted + MapSlack,
                                        zeroed |-> granted]),
                    !.heap_addr[shim] = @ + granted]]

\* the shared tail of the three allocation hooks: allocate, complete the call
AllocAndReturn(call, emu, shim, size) ==
    IF size = Unreadable
    THEN HookResult("Exception", emu)
    ELSE LET a == allocate_mem(emu, shim, size)
         IN  HookResult("True", execCallReturn(a.emu, call, a.va))

\* RtlAllocateHeapHook.hook
RtlAllocateHeapHook_hook(call, emu) ==
    IF call.callname = "ntdll.RtlAllocateHeap"
    THEN AllocAndReturn(call, emu, "RtlAllocateHeapHook",
                        getStackValue(emu, RtlSizeOffset))
    ELSE HookResult("UnsupportedFunction", emu)

\* mutant of AllocateHeap.hook: the call name is not tested
AllocateHeap_hook_any_name(call, emu) ==
    AllocAndReturn(call, emu, "AllocateHeap",
                   getStackValue(emu, AllocSizeOffset))

\* AllocateHeap.hook
AllocateHeap_hook(call, emu) ==
    IF call.callname \in {"kernel32.LocalAlloc", "kernel32.GlobalAlloc",
                          "kernel32.VirtualAlloc"}
    THEN AllocAndReturn(call, emu, "AllocateHeap",
                        getStackValue(emu, AllocSizeOffset))
    ELSE HookResult("UnsupportedFunction", emu)

\* mutant of MallocHeap.hook: the requested size is honoured
MallocHeap_hook_honours_size(call, emu) ==
    IF call.callname = "msvcrt.malloc"
    THEN AllocAndReturn(call, emu, "MallocHeap",
                        getStackValue(emu, MallocSizeOffset))
    ELSE HookResult("UnsupportedFunction", emu)

\* MallocHeap.hook: the size is read and not used
MallocHeap_hook(call, emu) ==
    IF call.callname = "msvcrt.malloc"
    THEN IF getStackValue(emu, MallocSizeOffset) = Unreadable
         THEN HookResult("Exception", emu)
         ELSE AllocAndReturn(call, emu, "MallocHeap", MallocSize)
    ELSE HookResult("UnsupportedFunction", emu)

\* mutant of ExitProcessHook.hook: the call is completed like any other
\* handled call instead of stopping the emulation
ExitProcessHook_hook_returns(call, emu) ==
    IF call.callname = "kernel32.ExitProcess"
    THEN HookResult("True", execCallReturn(emu, call, 0))
    ELSE HookResult("None", emu)

\* ExitProcessHook.hook
ExitProcessHook_hook(call, emu) ==
    IF call.callname = "kernel32.ExitProcess"
    THEN HookResult("StopEmulation", emu)
    ELSE HookResult("None", emu)

\* mutant of DeltaCollectorHook.hook: each Delta is anchored to the state at
\* the previous imported call
DeltaCollectorHook_hook_chained(call, emu) ==
    IF is_import(emu.pc)
    THEN HookResult("None",
            [emu EXCEPT !.deltas =
                Append(@, Delta(IF @ = <<>> THEN pre_snap
                                ELSE @[Len(@)].post_snap,
                                make_snapshot(emu)))])
    ELSE HookResult("None", emu)

\* mutant of DeltaCollectorHook.hook: the newest Delta is put first
DeltaCollectorHook_hook_prepends(call, emu) ==
    IF is_import(emu.pc)
    THEN HookResult("None",
            [emu EXCEPT !.deltas =
                <<Delta(pre_snap, make_snapshot(emu))>> \o @])
    ELSE HookResult("None", emu)

\* DeltaCollectorHook.hook
DeltaCollectorHook_hook(call, emu) ==
    IF is_import(emu.pc)
    THEN HookResult("None",
            [emu EXCEPT !.deltas = Append(@, Delta(pre_snap, make_snapshot(emu)))])
    ELSE HookResult("None", emu)

\* mutant of the driver.add_hook calls: the collector is registered last
HookOrder_collector_last ==
    <<"GetProcessHeapHook", "RtlAllocateHeapHook", "AllocateHeap",
      "MallocHeap", "ExitProcessHook", "DeltaCollectorHook">>

\* the order of the driver.add_hook calls in emulate_function
HookOrder ==
    <<"DeltaCollectorHook", "GetProcessHeapHook", "RtlAllocateHeapHook",
      "AllocateHeap", "MallocHeap", "ExitProcessHook">>

CallHook(h, call, emu) ==
    CASE h = "DeltaCollectorHook"  -> DeltaCollectorHook_hook(call, emu)
      [] h = "GetProcessHeapHook"  -> GetProcessHeapHook_hook(call, emu)
      [] h = "RtlAllocateHeapHook" -> RtlAllocateHeapHook_hook(call, emu)
      [] h = "AllocateHeap"        -> AllocateHeap_hook(call, emu)
      [] h = "MallocHeap"          -> MallocHeap_hook(call, emu)
      [] h = "ExitProcessHook"     -> ExitProcessHook_hook(call, emu)

\* the driver's hook chain: hooks run in registration order; one that returns
\* None or raises UnsupportedFunction passes the call on, one that returns
\* True ends the chain, any other exception leaves the driver
RECURSIVE RunHooks(_, _, _)
RunHooks(i, call, emu) ==
    IF i > Len(HookOrder)
    THEN [ret |-> "unhandled", emu |-> emu, by |-> "none"]
    ELSE LET r == CallHook(HookOrder[i], call, emu)
         IN  IF r.ret \in {"None", "UnsupportedFunction"}
             THEN RunHooks(i + 1, call, r.emu)
             ELSE [ret |-> r.ret, emu |-> r.emu, by |-> HookOrder[i]]

-----------------------------------------------------------------------------
(* ApiMonitor: the return-address guard *)

MonitorResult(exc_, emu_) == [exc |-> exc_, emu |-> emu_]

\* ApiMonitor._get_return_vas
get_return_vas(function_start) ==
    {c.va + c.size : c \in Callers(function_start)}

\* ApiMonitor.dumpStack raises when one of the words it prints is unreadable
dumpStackRaises(emu) ==
    \E k \in 0..7 : getStackValue(emu, 16 - 4 * k) = Unreadable

\* the loop of _fix_return from `offset` on: the first candidate in
\* return_addresses wins
RECURSIVE fix_return_scan(_, _, _, _)
fix_return_scan(emu, esp, offset, return_addresses) ==
    IF offset >= pointer_size * NUM_ADDRESSES
    THEN IF dumpStackRaises(emu)
         THEN MonitorResult("Exception", emu)
         ELSE MonitorResult("No valid return address found...", emu)
    ELSE LET ret_va_candidate == getStackValue(emu, offset)
         IN  IF ret_va_candidate = Unreadable
             THEN MonitorResult("Exception", emu)
             ELSE IF ret_va_candidate \in return_addresses
             THEN LET fixed == [emu EXCEPT !.pc = ret_va_candidate,
                                           !.sp = esp + offset + pointer_size]
                  IN  MonitorResult(IF dumpStackRaises(fixed)
                                    THEN "Exception" ELSE "none", fixed)
             ELSE fix_return_scan(emu, esp, offset + pointer_size,
                                  return_addresses)

\* mutant of _fix_return: the scan starts one slot too high
fix_return_skips_top(emu, bad_return_address, return_addresses) ==
    IF dumpStackRaises(emu)
    THEN MonitorResult("Exception", emu)
    ELSE fix_return_scan(emu, emu.sp, pointer_size, return_addresses)

\* mutant of _fix_return: the stack pointer is set to the slot of the
\* candidate, not past it
fix_return_stops_at_slot(emu, bad_return_address, return_addresses) ==
    IF dumpStackRaises(emu)
    THEN MonitorResult("Exception", emu)
    ELSE LET m == fix_return_scan(emu, emu.sp, 0, return_addresses)
         IN  IF m.emu.pc # emu.pc
             THEN MonitorResult(m.exc, [m.emu EXCEPT !.sp = @ - pointer_size])
             ELSE m

\* ApiMonitor._fix_return
fix_return(emu, bad_return_address, return_addresses) ==
    IF dumpStackRaises(emu)
    THEN MonitorResult("Exception", emu)
    ELSE fix_return_scan(emu, emu.sp, 0, return_addresses)

\* mutant of _check_return: the immediate of `ret imm16` is added to the
\* stack pointer
check_return_adds_immediate(emu, op) ==
    LET function_start == function_index(op.va)
    IN  IF function_start = NoFunction
        THEN MonitorResult("KeyError", emu)
        ELSE LET return_addresses == get_return_vas(function_start)
                 adjusted == IF op.opers # <<>>
                             THEN [emu EXCEPT !.sp = @ + op.opers[1]]
                             ELSE emu
                 ret_addr == getStackValue(adjusted, RetValueOffset)
             IN  IF ret_addr = Unreadable
                 THEN MonitorResult("Exception", adjusted)
                 ELSE IF ret_addr \notin return_addresses
                 THEN fix_return(adjusted, ret_addr, return_addresses)
                 ELSE MonitorResult("none", adjusted)

\* ApiMonitor._check_return
check_return(emu, op) ==
    LET function_start == function_index(op.va)
    IN  IF function_start = NoFunction
        THEN MonitorResult("KeyError", emu)
        ELSE LET return_addresses == get_return_vas(function_start)
                 adjusted == IF op.opers # <<>>
                             THEN [emu EXCEPT !.sp = @ - op.opers[1]]
                             ELSE emu
                 ret_addr == getStackValue(adjusted, RetValueOffset)
             IN  IF ret_addr = Unreadable
                 THEN MonitorResult("Exception", adjusted)
                 ELSE IF ret_addr \notin return_addresses
                 THEN fix_return(adjusted, ret_addr, return_addresses)
                 ELSE MonitorResult("none", adjusted)

\* what posthook leaves behind: the exception that leaves it (exc), the
\* message it logged (self.d(str(e))) and the engine state
PosthookResult(exc_, logged_, emu_) ==
    [exc |-> exc_, logged |-> logged_, emu |-> emu_]

\* mutant of ApiMonitor.posthook: _check_return is called outside any try
posthook_without_try(emu, op) ==
    IF op.mnem = "ret"
    THEN LET m == check_return(emu, op)
         IN  PosthookResult(m.exc, "none", m.emu)
    ELSE PosthookResult("none", "none", emu)

\* ApiMonitor.posthook: every exception of _check_return is caught and
\* logged; the engine keeps what _check_return had changed before it raised
posthook(emu, op) ==
    IF op.mnem = "ret"
    THEN LET m == check_return(emu, op)
         IN  PosthookResult("none", m.exc, m.emu)
    ELSE PosthookResult("none", "none", emu)

-----------------------------------------------------------------------------
(* emulate_function *)

Shims == {"RtlAllocateHeapHook", "AllocateHeap", "MallocHeap"}

\* mutant of the except clauses: no catch-all `except Exception`
emulate_function_except_no_catch_all(exc) ==
    CASE exc = "returned" -> "none"
      [] exc = "InstructionRangeExceededError" -> "Halting as emulation has escaped!"
      [] exc = "InvalidInstruction" -> "invalid instruction"
      [] exc = "UnsupportedInstruction" -> "unsupported instruction"
      [] exc = "BreakpointHit" -> "unexpected emulation breakpoint"
      [] exc = "StopEmulation" -> "none"
      [] OTHER -> "propagate"

\* the except clauses of emulate_function: what is logged for an exception
\* that leaves driver.runToVa ("propagate": no clause catches it)
emulate_function_except(exc) ==
    CASE exc = "returned" -> "none"
      [] exc = "InstructionRangeExceededError" -> "Halting as emulation has escaped!"
      [] exc = "InvalidInstruction" -> "invalid instruction"
      [] exc = "UnsupportedInstruction" -> "unsupported instruction"
      [] exc = "BreakpointHit" -> "unexpected emulation breakpoint"
      [] exc = "StopEmulation" -> "none"
      [] OTHER -> "unexpected exception"

\* the engine state as the hooks and the monitor see it
Emu == [pc |-> pc, sp |-> sp, eax |-> eax, stack |-> stack, maps |-> maps,
        data |-> data, heap_addr |-> heap_addr, deltas |-> deltas]

\* the engine's part of the next state
SetEmu(emu) ==
    /\ pc' = emu.pc
    /\ sp' = emu.sp
    /\ eax' = emu.eax
    /\ stack' = emu.stack
    /\ maps' = emu.maps
    /\ data' = emu.data
    /\ heap_addr' = emu.heap_addr

\* mutant of the end of emulate_function: the collector's list is returned
\* as it is, without the final Delta
Finish_without_final_delta(exc, emu) ==
    /\ outcome' = exc
    /\ logged' = emulate_function_except(exc)
    /\ phase' = "DONE"
    /\ deltas' = emu.deltas
    /\ result' = deltas'

\* the end of emulate_function once driver.runToVa has returned or raised
\* exc with the engine in state emu: the matching except clause, then the
\* final Delta is appended to the collector's list, which is returned
Finish(exc, emu) ==
    /\ outcome' = exc
    /\ logged' = emulate_function_except(exc)
    /\ IF emulate_function_except(exc) = "propagate"
       THEN /\ phase' = "RAISED"
            /\ deltas' = emu.deltas
            /\ result' = <<>>
       ELSE /\ phase' = "DONE"
            /\ deltas' = Append(emu.deltas, Delta(pre_snap, make_snapshot(emu)))
            /\ result' = deltas'

\* the engine goes on with the next instruction
Continue(emu) ==
    /\ deltas' = emu.deltas
    /\ UNCHANGED <<phase, outcome, logged, result>>

\* mutant of the loop condition of driver.runToVa: no instruction budget
Running_without_budget == phase = "RUNNING" /\ pc # return_address

\* driver.runToVa is still stepping
Running == phase = "RUNNING" /\ pc # return_address /\ icount < MaxInstr

NoRet == [seen |-> FALSE]

\* state on entry to driver.runToVa: pre_snap taken, the collector, the
\* monitor and the hooks constructed and registered
InitWith(stacks) ==
    /\ phase = "RUNNING"
    /\ outcome = "none"
    /\ logged = "none"
    /\ pc = Image.fva
    /\ sp = Image.sp0
    /\ eax = 0
    /\ stack \in stacks
    /\ maps = <<>>
    /\ data = 0
    /\ icount = 0
    /\ heap_addr = [h \in Shims |-> HeapBase]
    /\ deltas = <<>>
    /\ pre_snap = make_snapshot([pc |-> pc, sp |-> sp, stack |-> stack,
                                 maps |-> maps, data |-> data])
    /\ result = <<>>
    /\ entry = [memory |-> [stack |-> stack.words, maps |-> <<>>, data |-> 0],
                sp |-> Image.sp0, pc |-> Image.fva]
    /\ hooked = <<>>
    /\ last_ret = NoRet
    /\ run = 1

-----------------------------------------------------------------------------
(* One step of driver.runToVa: the engine retires an instruction, the hook *)
(* chain runs on a call, the monitor's posthook runs last                  *)

\* len(argv) the driver hands to the hooks for a call name
Argc(callname) ==
    CASE callname = "kernel32.GetProcessHeap" -> 0
      [] callname = "ntdll.RtlAllocateHeap" -> 3
      [] callname = "kernel32.LocalAlloc" -> 2
      [] callname = "kernel32.GlobalAlloc" -> 2
      [] callname = "kernel32.VirtualAlloc" -> 4
      [] OTHER -> 1

CallNames ==
    {"kernel32.GetProcessHeap", "ntdll.RtlAllocateHeap", "kernel32.LocalAlloc",
     "kernel32.GlobalAlloc", "kernel32.VirtualAlloc", "msvcrt.malloc",
     "kernel32.ExitProcess", "kernel32.Sleep"}

CallTargets == {Image.import_va, Image.tainted_va, Image.local_va}

\* a call instruction at pc to target, resolved by the driver to callname:
\* the engine pushes the return site and jumps, the hook chain runs; a hook
\* that raises ends the run
StepCall(names, targets) ==
    /\ Running
    /\ sp - pointer_size < stack.top
    /\ \E callname \in names, target \in targets :
         LET call == [callname |-> callname, ret_to |-> pc + 5,
                      argc |-> Argc(callname),
                      stdcall |-> callname # "msvcrt.malloc"]
             entered == [Emu EXCEPT
                           !.pc = target,
                           !.sp = sp - pointer_size,
                           !.stack.words = (sp - pointer_size :> pc + 5) @@ @]
             r == RunHooks(1, call, entered)
             after == posthook(r.emu, [mnem |-> "call", va |-> pc,
                                       opers |-> <<target>>]).emu
         IN  /\ icount' = icount + 1
             /\ hooked' = Append(hooked,
                    [at |-> icount, callname |-> callname, target |-> target,
                     imported |-> getVivTaint(target) = "import",
                     snap |-> make_snapshot(entered),
                     ret |-> r.ret, by |-> r.by, va |-> r.emu.eax,
                     size |-> [o \in {MallocSizeOffset, AllocSizeOffset,
                                      RtlSizeOffset} |->
                                  getStackValue(entered, o)],
                     before |-> heap_addr, after |-> r.emu.heap_addr,
                     newmaps |-> SubSeq(r.emu.maps, Len(maps) + 1,
                                        Len(r.emu.maps))])
             /\ IF r.ret \in {"True", "unhandled"}
                THEN SetEmu(after) /\ Continue(after)
                ELSE SetEmu(r.emu) /\ Finish(r.ret, r.emu)
             /\ UNCHANGED <<pre_snap, entry, last_ret, run>>

RetOperands == {<<>>, <<8>>}

\* a return instruction at pc: the engine pops the return value into the
\* program counter and drops the immediate; then posthook checks the return.
\* An exception that left posthook would leave driver.runToVa
StepRet(operands) ==
    /\ Running
    /\ readMemoryFormat(Emu, sp) # Unreadable
    /\ \E opers \in operands :
         LET op == [mnem |-> "ret", va |-> pc, opers |-> opers]
             retired == [Emu EXCEPT
                           !.pc = readMemoryFormat(Emu, sp),
                           !.sp = sp + pointer_size
                                  + (IF opers = <<>> THEN 0 ELSE opers[1])]
             m == posthook(retired, op)
         IN  /\ icount' = icount + 1
             /\ last_ret' = [seen |-> TRUE, at |-> icount + 1, op |-> op,
                             sp_in |-> retired.sp, pc_in |-> retired.pc,
                             exc |-> m.exc, logged |-> m.logged]
             /\ SetEmu(m.emu)
             /\ IF m.exc = "none" THEN Continue(m.emu) ELSE Finish(m.exc, m.emu)
             /\ UNCHANGED <<pre_snap, entry, hooked, run>>

\* any other instruction: a store to memory, or a jump
StepPlain ==
    /\ Running
    /\ \E kind \in {"store", "jmp_garbage", "jmp_return"} :
         LET retired == [Emu EXCEPT
                           !.pc = CASE kind = "store" -> pc + 2
                                    [] kind = "jmp_garbage" -> Image.garbage
                                    [] kind = "jmp_return" -> return_address,
                           !.data = IF kind = "store" THEN @ + 1 ELSE @]
             m == posthook(retired, [mnem |-> "mov", va |-> pc, opers |-> <<>>])
         IN  /\ icount' = icount + 1
             /\ SetEmu(m.emu)
             /\ Continue(m.emu)
             /\ UNCHANGED <<pre_snap, entry, hooked, last_ret, run>>

EngineFaults ==
    {"InvalidInstruction", "UnsupportedInstruction", "BreakpointHit",
     "Exception"}

\* the engine (or the registration of a hook) raises
StepFault ==
    /\ phase = "RUNNING"
    /\ \E exc \in EngineFaults :
         /\ Finish(exc, Emu)
         /\ UNCHANGED <<pc, sp, eax, stack, maps, data, icount, heap_addr,
                        pre_snap, entry, hooked, last_ret, run>>

\* driver.runToVa finds the program counter at return_address and returns
ReachReturn ==
    /\ phase = "RUNNING"
    /\ pc = return_address
    /\ Finish("returned", Emu)
    /\ UNCHANGED <<pc, sp, eax, stack, maps, data, icount, heap_addr,
                   pre_snap, entry, hooked, last_ret, run>>

\* driver.runToVa has retired max_instruction_count instructions
BudgetExceeded ==
    /\ phase = "RUNNING"
    /\ pc # return_address
    /\ icount >= MaxInstr
    /\ Finish("InstructionRangeExceededError", Emu)
    /\ UNCHANGED <<pc, sp, eax, stack, maps, data, icount, heap_addr,
                   pre_snap, entry, hooked, last_ret, run>>

-----------------------------------------------------------------------------
(* Specifications *)

Garbage == Image.garbage

\* stack images of a whole run: addresses sp0 .. sp0+20
StackOf(words, top) ==
    [words |-> [a \in {Image.sp0 + pointer_size * (i - 1) : i \in 1..Len(words)}
                  |-> words[(a - Image.sp0) \div pointer_size + 1]],
     top |-> top]

NoTop == Image.sp0 + 4096

RunStacks ==
    {StackOf(<<Garbage, 10, R2, 5000, Garbage, Garbage>>, NoTop),
     StackOf(<<R2, Garbage, 0, 0, Garbage, Garbage>>, NoTop),
     StackOf(<<Garbage, Garbage, Garbage, Garbage, Garbage, R2>>, Image.sp0 + 8)}

Init == InitWith(RunStacks)

Next ==
    \/ StepCall(CallNames, CallTargets)
    \/ StepRet(RetOperands)
    \/ StepPlain
    \/ StepFault
    \/ ReachReturn
    \/ BudgetExceeded

Spec == Init /\ [][Next]_vars

\* emulate_function is sequential code that never blocks: as long as it has
\* a step to take (the engine retiring an instruction or raising, the
\* except clause and the finalization), it takes one
LiveStacks ==
    {StackOf(<<Garbage, 10, R2, 5000, Garbage, Garbage>>, NoTop),
     StackOf(<<Garbage, Garbage, Garbage, Garbage, Garbage, R2>>, Image.sp0 + 8)}

InitLive == InitWith(LiveStacks)

SpecLive == InitLive /\ [][Next]_vars /\ WF_vars(Next)

\* the allocation shims alone: every call name, requested sizes around the
\* page size and the cap.  The words below sp0+12 hold a, the others b
AllocSizes ==
    {0, 10, 4096, 5000, MAX_ALLOCATION_SIZE, MAX_ALLOCATION_SIZE + 1}

AllocStacks ==
    {[words |-> [addr \in {Image.sp0 + pointer_size * i : i \in 0..11} |->
                    IF addr < Image.sp0 + 12 THEN a ELSE b],
      top |-> top] :
        a \in AllocSizes, b \in AllocSizes, top \in {NoTop, Image.sp0 + 8}}

InitAlloc == InitWith(AllocStacks)

NextAlloc ==
    \/ StepCall(CallNames, {Image.import_va, Image.local_va})
    \/ BudgetExceeded

SpecAlloc == InitAlloc /\ [][NextAlloc]_vars

\* the guard alone: every stack of six words drawn from the two valid
\* targets and a garbage word, fully mapped or cut short
GuardWords == {Garbage, R1, R2}

GuardStacks ==
    {[words |-> [addr \in {Image.sp0 + pointer_size * i : i \in 0..5} |->
                    w[(addr - Image.sp0) \div pointer_size + 1]],
      top |-> top] :
        w \in [1..6 -> GuardWords],
        top \in {NoTop, Image.sp0 + 20, Image.sp0 + 12}}

GuardOperands == {<<>>, <<4>>, <<8>>}

InitGuard == InitWith(GuardStacks)

NextGuard ==
    \/ StepRet(GuardOperands)
    \/ StepPlain
    \/ ReachReturn
    \/ BudgetExceeded

SpecGuard == InitGuard /\ [][NextGuard]_vars

\* mutant of the start of emulate_function: the collector's list and the
\* shims' cursors are state shared by all runs
NewRun_shared_state ==
    /\ phase = "DONE"
    /\ run < MaxRuns
    /\ run' = run + 1
    /\ pc' = Image.fva
    /\ sp' = Image.sp0
    /\ pre_snap' = make_snapshot([Emu EXCEPT !.pc = Image.fva,
                                              !.sp = Image.sp0])
    /\ entry' = pre_snap'
    /\ deltas' = deltas
    /\ heap_addr' = heap_addr
    /\ phase' = "RUNNING"
    /\ outcome' = "none"
    /\ logged' = "none"
    /\ icount' = 0
    /\ result' = <<>>
    /\ hooked' = <<>>
    /\ last_ret' = NoRet
    /\ UNCHANGED <<eax, stack, maps, data>>

\* emulate_function is called again on the same engine, which its caller
\* has positioned at fva: the engine's memory is what the earlier run left;
\* pre_snap is taken, a new collector and new hook instances are made
NewRun ==
    /\ phase = "DONE"
    /\ run < MaxRuns
    /\ run' = run + 1
    /\ pc' = Image.fva
    /\ sp' = Image.sp0
    /\ pre_snap' = make_snapshot([Emu EXCEPT !.pc = Image.fva,
                                              !.sp = Image.sp0])
    /\ entry' = pre_snap'
    /\ deltas' = <<>>
    /\ heap_addr' = [h \in Shims |-> HeapBase]
    /\ phase' = "RUNNING"
    /\ outcome' = "none"
    /\ logged' = "none"
    /\ icount' = 0
    /\ result' = <<>>
    /\ hooked' = <<>>
    /\ last_ret' = NoRet
    /\ UNCHANGED <<eax, stack, maps, data>>

\* repeated runs on one engine: imported allocation and termination calls
RunsNames ==
    {"ntdll.RtlAllocateHeap", "kernel32.LocalAlloc", "msvcrt.malloc",
     "kernel32.ExitProcess"}

RunsStacks ==
    {[words |-> [addr \in {Image.sp0 + pointer_size * i : i \in 0..11} |-> a],
      top |-> NoTop] : a \in {10, PageSize}}

InitRuns == InitWith(RunsStacks)

NextRuns ==
    \/ StepCall(RunsNames, {Image.import_va})
    \/ BudgetExceeded
    \/ NewRun

SpecRuns == InitRuns /\ [][NextRuns]_vars

-----------------------------------------------------------------------------
(* Properties of emulate_function and the collector (Spec) *)

\* the calls of the run whose target is classified as imported, in the
\* order the driver handed them to the hook chain
ImportedCalls == SelectSeq(hooked, LAMBDA h : h.imported)

\* the state the run started from
InitialSnapshot == entry

\* C1: whatever way the run ended (return address reached, budget exhausted,
\* invalid or unsupported instruction, breakpoint, generic fault, stop
\* signal), emulate_function has returned a non-empty list of Deltas.
C1_ResultNonEmpty ==
    outcome # "none" => phase = "DONE" /\ Len(result) >= 1

\* C1 witness: the very first instruction faulted, no call was hooked, and
\* the returned list holds one Delta
C1_Witness_FirstInstructionFaults ==
    /\ phase = "DONE"
    /\ outcome = "InvalidInstruction"
    /\ icount = 0
    /\ hooked = <<>>
    /\ Len(result) = 1

\* C2: no exception leaves emulate_function: once driver.runToVa has ended,
\* normally or by any exception, the function has gone through finalization
\* and returned the collector's list, ending with the final Delta.
C2_NeverRaises ==
    /\ phase # "RAISED"
    /\ outcome # "none" =>
          /\ phase = "DONE"
          /\ result = deltas
          /\ result # <<>>
          /\ result[Len(result)] = Delta(pre_snap, make_snapshot(Emu))

\* C2 witness: a hook raised an exception that has no except clause of its
\* own, and the run still ended with a returned list
C2_Witness_HookExceptionAbsorbed ==
    /\ phase = "DONE"
    /\ outcome = "Exception"
    /\ hooked # <<>>
    /\ hooked[Len(hooked)].ret = "Exception"
    /\ result # <<>>

\* C3: every Delta of the collector's list and of the returned list has the
\* snapshot taken before the run started as its pre snapshot.
C3_PreIsInitialSnapshot ==
    /\ pre_snap = InitialSnapshot
    /\ \A i \in 1..Len(deltas) : deltas[i].pre_snap = InitialSnapshot
    /\ \A i \in 1..Len(result) : result[i].pre_snap = InitialSnapshot

\* C3 witness: a returned list of three Deltas whose post snapshots differ
\* from one another and from the initial snapshot
C3_Witness_ThreeDeltas ==
    /\ phase = "DONE"
    /\ Len(result) = 3
    /\ result[1].post_snap # InitialSnapshot
    /\ result[2].post_snap # result[1].post_snap
    /\ result[3].post_snap # result[2].post_snap

\* C4: the returned list holds, in the order the imported calls happened,
\* one Delta per imported call whose post snapshot is the engine state at
\* that call, followed by exactly one final Delta whose post snapshot is
\* the engine state at the end of the run.
C4_TemporalOrderFinalLast ==
    phase = "DONE" =>
        LET n == Len(ImportedCalls)
        IN  /\ Len(result) = n + 1
            /\ \A i \in 1..n : result[i].post_snap = ImportedCalls[i].snap
            /\ \A i \in 1..n : \A j \in 1..n :
                   i < j => ImportedCalls[i].at < ImportedCalls[j].at
            /\ result[n + 1].post_snap = make_snapshot(Emu)

\* C4 witness: two imported calls with different engine states, then the end
C4_Witness_TwoCallsThenFinal ==
    /\ phase = "DONE"
    /\ Len(ImportedCalls) = 2
    /\ ImportedCalls[1].snap # ImportedCalls[2].snap
    /\ result[3].post_snap # ImportedCalls[2].snap

\* C5: the collector's list holds exactly one Delta per hooked call whose
\* target is imported and none for any other call, so the returned list has
\* (number of imported calls) + 1 elements.
C5_OneDeltaPerImportedCall ==
    /\ Len(deltas) = Len(ImportedCalls) + (IF phase = "DONE" THEN 1 ELSE 0)
    /\ phase = "DONE" => Len(result) = Len(ImportedCalls) + 1

\* C5 witness: a run with one imported call and one call to an address
\* whose taint is not an import
C5_Witness_ImportedAndTaintedCall ==
    /\ phase = "DONE"
    /\ Len(hooked) = 2
    /\ hooked[1].target = Image.tainted_va
    /\ hooked[2].target = Image.import_va
    /\ Len(result) = 2

------------------------------------------------------------------------\* C12: a call the driver resolves to kernel32.ExitProcess is the last
\* event of its run: the run is over with the stop signal as its outcome,
\* nothing was logged as a fault, no instruction after the call was counted,
\* and the returned list ends with a Delta whose post snapshot is the engine
\* state at the call; memory, program counter, stack pointer and every heap
\* cursor are what they were when the hook chain was entered.
C12_ExitProcessEndsRunCleanly ==
    \A i \in 1..Len(hooked) :
        hooked[i].callname = "kernel32.ExitProcess" =>
            /\ i = Len(hooked)
            /\ phase = "DONE"
            /\ outcome = "StopEmulation"
            /\ logged = "none"
            /\ icount = hooked[i].at + 1
            /\ result # <<>>
            /\ result[Len(result)].post_snap = hooked[i].snap
            /\ make_snapshot(Emu) = hooked[i].snap
            /\ heap_addr = hooked[i].before
            /\ maps = hooked[i].snap.memory.maps

\* C12 witness: an allocation was serviced, then the imported ExitProcess
\* was called; the collector's Delta for the call and the final Delta carry
\* the same post snapshot, with the allocation's region in it
C12_Witness_AllocThenExit ==
    /\ phase = "DONE"
    /\ outcome = "StopEmulation"
    /\ Len(hooked) = 2
    /\ hooked[1].ret = "True"
    /\ hooked[1].by \in Shims
    /\ hooked[2].callname = "kernel32.ExitProcess"
    /\ hooked[2].imported
    /\ Len(result) >= 2
    /\ result[Len(result)].post_snap = result[Len(result) - 1].post_snap
    /\ result[Len(result)].post_snap.memory.maps # <<>>

-----
(* Properties of the allocation shims (SpecAlloc) *)

\* min(ceil(s / 4096) * 4096, 10 MiB)
GrantedSize(s) ==
    LET up == ((s + PageSize - 1) \div PageSize) * PageSize
    IN  IF up > 10 * 1024 * 1024 THEN 10 * 1024 * 1024 ELSE up

\* the calls an allocation shim serviced
Serviced(h) == h.ret = "True" /\ h.by \in Shims

\* the size a serviced call asked for
RequestedSize(h) ==
    IF h.by = "RtlAllocateHeapHook" THEN h.size[RtlSizeOffset]
    ELSE IF h.by = "AllocateHeap" THEN h.size[AllocSizeOffset]
    ELSE h.size[MallocSizeOffset]

\* C6 (as claimed): every allocation serviced for ntdll.RtlAllocateHeap or
\* kernel32.LocalAlloc/GlobalAlloc/VirtualAlloc returns the cursor as base
\* and advances the cursor by min(ceil(s/4096)*4096, 10 MiB).
C6_Claim_GrantsRoundedUpSize ==
    \A i \in 1..Len(hooked) :
        LET h == hooked[i]
        IN  (Serviced(h) /\ h.by \in {"RtlAllocateHeapHook", "AllocateHeap"}) =>
                /\ h.va = h.before[h.by]
                /\ h.after[h.by] = h.before[h.by] + GrantedSize(RequestedSize(h))

\* C7 (as claimed): two allocations serviced by the same shim have strictly
\* increasing bases and the regions mapped for them do not overlap.
C7_Claim_IncreasingDisjoint ==
    \A i \in 1..Len(hooked) : \A j \in 1..Len(hooked) :
        LET a == hooked[i]
            b == hooked[j]
        IN  (i < j /\ Serviced(a) /\ Serviced(b) /\ a.by = b.by) =>
                /\ a.va < b.va
                /\ a.newmaps[1].va + a.newmaps[1].size <= b.newmaps[1].va

------------------------------------------------------------------------\* C15 (as claimed): the allocations of a run are served from one cursor:
\* two calls serviced by allocation hooks of different names never return
\* the same base, and the ranges they zero-fill never overlap.
C15_Claim_OneCursorPerRun ==
    \A i \in 1..Len(hooked) : \A j \in 1..Len(hooked) :
        LET a == hooked[i]
            b == hooked[j]
        IN  (i < j /\ Serviced(a) /\ Serviced(b) /\ a.by # b.by) =>
                /\ a.va # b.va
                /\ \/ a.newmaps[1].va + a.newmaps[1].zeroed <= b.newmaps[1].va
                   \/ b.newmaps[1].va + b.newmaps[1].zeroed <= a.newmaps[1].va

\* the call names the hook of an allocation shim services
Recognized(shim) ==
    CASE shim = "RtlAllocateHeapHook" -> {"ntdll.RtlAllocateHeap"}
      [] shim = "AllocateHeap" -> {"kernel32.LocalAlloc", "kernel32.GlobalAlloc",
                                   "kernel32.VirtualAlloc"}
      [] shim = "MallocHeap" -> {"msvcrt.malloc"}

\* C16: in every step of a run (a call handed to the hook chain, a return
\* check, any other instruction, the end of the run) no shim's heap cursor
\* decreases, and a cursor that changes is that of the shim which has just
\* serviced a call of a name it recognizes; every other step, and every
\* other shim's cursor in that step, leaves it unchanged.
C16_CursorOwnedByItsShim ==
    [][\A h \in Shims :
          /\ heap_addr'[h] >= heap_addr[h]
          /\ heap_addr'[h] # heap_addr[h] =>
                /\ Len(hooked') = Len(hooked) + 1
                /\ hooked'[Len(hooked')].by = h
                /\ hooked'[Len(hooked')].ret = "True"
                /\ hooked'[Len(hooked')].callname \in Recognized(h)]_vars

\* C16 witness: RtlAllocateHeapHook serviced a call and advanced its cursor,
\* then AllocateHeap serviced one and advanced its own; the first cursor
\* stayed where it was and MallocHeap's never moved
C16_Witness_TwoShimsAdvance ==
    /\ Len(hooked) = 2
    /\ hooked[1].by = "RtlAllocateHeapHook"
    /\ hooked[2].by = "AllocateHeap"
    /\ hooked[1].after["RtlAllocateHeapHook"] > HeapBase
    /\ hooked[2].after["AllocateHeap"] > HeapBase
    /\ heap_addr["RtlAllocateHeapHook"] = hooked[1].after["RtlAllocateHeapHook"]
    /\ heap_addr["RtlAllocateHeapHook"] # heap_addr["AllocateHeap"]
    /\ heap_addr["MallocHeap"] = HeapBase

\* the call the driver would hand to the hook chain for callname now
CallOf(callname) ==
    [callname |-> callname, ret_to |-> pc + 5, argc |-> Argc(callname),
     stdcall |-> callname # "msvcrt.malloc"]

\* the hooks of the chain that do not pass a call of callname on
Claimants(callname) ==
    {i \in 1..Len(HookOrder) :
        CallHook(HookOrder[i], CallOf(callname), Emu).ret
            \notin {"None", "UnsupportedFunction"}}

\* C17: in every state of a run, an allocation shim handed a call name it
\* does not recognize raises UnsupportedFunction and leaves the engine, the
\* maps and every cursor as they are, and each call name some hook
\* recognizes is claimed by exactly one hook of the chain; accordingly every
\* call the chain has handled was handled by the one hook that recognizes
\* its name, with no map and no cursor change made by any other shim, and a
\* call no hook recognizes went through the chain without any effect.
C17_UnrecognizedFallsThrough ==
    /\ \A h \in Shims : \A callname \in CallNames \ Recognized(h) :
          CallHook(h, CallOf(callname), Emu)
              = HookResult("UnsupportedFunction", Emu)
    /\ \A callname \in CallNames \ {"kernel32.Sleep"} :
          Cardinality(Claimants(callname)) = 1
    /\ Claimants("kernel32.Sleep") = {}
    /\ \A i \in 1..Len(hooked) :
          LET c == hooked[i]
          IN  /\ c.ret = "True" =>
                    /\ \/ c.by \in Shims /\ c.callname \in Recognized(c.by)
                       \/ /\ c.by = "GetProcessHeapHook"
                          /\ c.callname = "kernel32.GetProcessHeap"
                    /\ \A h \in Shims \ {c.by} : c.after[h] = c.before[h]
                    /\ Len(c.newmaps) = IF c.by \in Shims THEN 1 ELSE 0
              /\ c.ret = "unhandled" =>
                    /\ c.callname = "kernel32.Sleep"
                    /\ c.after = c.before
                    /\ c.newmaps = <<>>

\* C17 witness: msvcrt.malloc went past RtlAllocateHeapHook and AllocateHeap,
\* which left their cursors alone, and MallocHeap serviced it; before that
\* a call no hook recognizes went through the whole chain
C17_Witness_FallThroughToMalloc ==
    /\ Len(hooked) = 2
    /\ hooked[1].callname = "kernel32.Sleep"
    /\ hooked[1].ret = "unhandled"
    /\ hooked[2].callname = "msvcrt.malloc"
    /\ hooked[2].ret = "True"
    /\ hooked[2].by = "MallocHeap"
    /\ heap_addr["RtlAllocateHeapHook"] = HeapBase
    /\ heap_addr["AllocateHeap"] = HeapBase
    /\ heap_addr["MallocHeap"] > HeapBase
    /\ Len(maps) = 1

-----
(* Properties of the return-address guard (SpecGuard) *)

Min(S) == CHOOSE x \in S : \A y \in S : x <= y

\* the word the stack holds at addr
StackWord(addr) == readMemoryFormat(Emu, addr)

\* posthook has just run on a return instruction of a function the index
\* knows
JustChecked ==
    /\ last_ret.seen
    /\ last_ret.at = icount
    /\ function_index(last_ret.op.va) # NoFunction

\* the valid-target set of the function the return instruction belongs to
ValidTargets ==
    {c.va + c.size : c \in Callers(function_index(last_ret.op.va))}

\* the stack pointer the guard scans from: the engine's, less the immediate
\* of the return instruction
ScanBase ==
    last_ret.sp_in
      - (IF last_ret.op.opers = <<>> THEN 0 ELSE last_ret.op.opers[1])

\* the offsets of the window slots that hold a valid target
WindowHits ==
    {o \in {0, pointer_size, 2 * pointer_size, 3 * pointer_size} :
        StackWord(ScanBase + o) \in ValidTargets}

\* the words posthook reads (and dumps) are all mapped
GuardReadsSucceed ==
    \A k \in 0..7 : StackWord(ScanBase + 16 - 4 * k) # Unreadable

\* C9: on a return whose observed return value is not a valid target (all
\* stack reads succeeding), if one of the four slots at offsets 0, p, 2p, 3p
\* from the stack pointer holds a valid target, the program counter is the
\* word of the lowest such slot and the stack pointer is that slot's address
\* plus p; otherwise, whatever the slots outside the window hold, nothing is
\* repaired.
C9_RepairFromLowestWindowSlot ==
    (JustChecked /\ GuardReadsSucceed /\ last_ret.pc_in \notin ValidTargets) =>
        IF WindowHits # {}
        THEN /\ pc = StackWord(ScanBase + Min(WindowHits))
             /\ sp = ScanBase + Min(WindowHits) + pointer_size
        ELSE /\ pc = last_ret.pc_in
             /\ sp = ScanBase

\* C9 witness: the observed value is garbage, the slot at offset 0 holds
\* garbage, two higher slots hold different valid targets and the guard
\* took the lower one
C9_Witness_TwoCandidates ==
    /\ JustChecked
    /\ GuardReadsSucceed
    /\ last_ret.pc_in \notin ValidTargets
    /\ Cardinality(WindowHits) = 2
    /\ Min(WindowHits) = pointer_size
    /\ \E o \in WindowHits :
          StackWord(ScanBase + o) # StackWord(ScanBase + Min(WindowHits))
    /\ pc = StackWord(ScanBase + pointer_size)
    /\ sp = ScanBase + 2 * pointer_size

\* C10 (as claimed): for every return instruction, with or without an
\* immediate, when the observed return value is a valid target, or is not
\* and no window slot holds one, the program counter and the stack pointer
\* after posthook are those before it.
C10_Claim_NoMutation ==
    (JustChecked /\ GuardReadsSucceed
       /\ (last_ret.pc_in \in ValidTargets \/ WindowHits = {})) =>
        /\ pc = last_ret.pc_in
        /\ sp = last_ret.sp_in

\* C11: whenever posthook has checked a return, whatever _check_return
\* raised (no valid return address in the window, the instruction's address
\* missing from the function index, a failed stack read), no exception has
\* left posthook, the message was logged, and the run goes on: the
\* instruction is counted and driver.runToVa is still stepping.
C11_GuardNeverAborts ==
    [][last_ret' # last_ret =>
          /\ last_ret'.exc = "none"
          /\ phase' = "RUNNING"
          /\ outcome' = "none"
          /\ icount' = icount + 1
          /\ deltas' = deltas
          /\ result' = <<>>]_vars

\* C11 witness: a return has just been checked whose window held no valid
\* return address; _fix_return raised, posthook logged it, nothing was
\* repaired and the run is still going
C11_Witness_NoValidReturnLogged ==
    /\ phase = "RUNNING"
    /\ outcome = "none"
    /\ last_ret.seen
    /\ last_ret.at = icount
    /\ last_ret.exc = "none"
    /\ last_ret.logged = "No valid return address found..."
    /\ pc = last_ret.pc_in

\* what a guard that checks from stack pointer base leaves behind, when it
\* raised nothing or only "no valid return address": the word below base is
\* valid and nothing but the stack pointer moved, or the lowest valid window
\* slot above base was taken, or no slot was valid and the stack pointer
\* stays at base
CheckedFrom(base) ==
    LET hits == {o \in {0, pointer_size, 2 * pointer_size, 3 * pointer_size} :
                    StackWord(base + o) \in ValidTargets}
    IN  IF StackWord(base + RetValueOffset) \in ValidTargets
        THEN /\ last_ret.logged = "none"
             /\ pc = last_ret.pc_in
             /\ sp = base
        ELSE IF hits # {}
        THEN /\ last_ret.logged = "none"
             /\ pc = StackWord(base + Min(hits))
             /\ sp = base + Min(hits) + pointer_size
        ELSE /\ last_ret.logged = "No valid return address found..."
             /\ pc = last_ret.pc_in
             /\ sp = base

\* posthook has just checked a `ret imm16` and raised no error other than
\* "no valid return address"
JustCheckedRetImm ==
    /\ JustChecked
    /\ last_ret.op.opers # <<>>
    /\ last_ret.logged \in {"none", "No valid return address found..."}

ScenarioB ==
    /\ JustChecked
    /\ last_ret.op.opers = <<>>
    /\ GuardReadsSucceed
    /\ last_ret.pc_in \notin ValidTargets
    /\ StackWord(last_ret.sp_in + 2 * pointer_size) \in ValidTargets

\* C14 (as claimed): in scenario B, whatever the other stack slots hold, the
\* program counter is the value at offset +8 and the stack pointer is the
\* old stack pointer + 12.
C14_Claim_ScenarioB_AnySlots ==
    ScenarioB =>
        /\ pc = StackWord(last_ret.sp_in + 2 * pointer_size)
        /\ sp = last_ret.sp_in + 3 * pointer_size

\* C14 (amended): in scenario B, when the slots at offsets 0 and +4 hold no
\* valid target, the program counter is the value at offset +8 and the
\* stack pointer is the old stack pointer + 12, whatever the slots above
\* +8 and below the stack pointer hold.
C14_ScenarioB_LowerSlotsInvalid ==
    (/\ ScenarioB
     /\ StackWord(last_ret.sp_in) \notin ValidTargets
     /\ StackWord(last_ret.sp_in + pointer_size) \notin ValidTargets) =>
        /\ pc = StackWord(last_ret.sp_in + 2 * pointer_size)
        /\ sp = last_ret.sp_in + 3 * pointer_size

\* C14 witness: scenario B with garbage at offsets 0 and +4 and the other
\* valid target at offset +12; the guard took the slot at +8
C14_Witness_ScenarioB ==
    /\ ScenarioB
    /\ StackWord(last_ret.sp_in) = Garbage
    /\ StackWord(last_ret.sp_in + pointer_size) = Garbage
    /\ StackWord(last_ret.sp_in + 2 * pointer_size) = R2
    /\ StackWord(last_ret.sp_in + 3 * pointer_size) = R1
    /\ pc = R2
    /\ sp = last_ret.sp_in + 3 * pointer_size

-----------------------------------------------------------------------------
(* Properties of repeated runs (SpecRuns) *)

\* the calls of the current run which shim serviced
ServicedBy(shim) ==
    {i \in 1..Len(hooked) : Serviced(hooked[i]) /\ hooked[i].by = shim}

\* C18: in every run, the first call each allocation shim services finds
\* that shim's cursor at 0x69690000 and returns it as base, whatever
\* earlier runs allocated, and the collector's list (and the
\* list the run returns) holds exactly one Delta per imported call of this
\* run, anchored to this run's initial snapshot, plus this run's final
\* Delta: nothing of an earlier run is in it.
C18_RunsShareNoState ==
    /\ \A h \in Shims :
          ServicedBy(h) # {} =>
              /\ hooked[Min(ServicedBy(h))].before[h] = HeapBase
              /\ hooked[Min(ServicedBy(h))].va = HeapBase
    /\ hooked = <<>> => heap_addr = [h \in Shims |-> HeapBase]
    /\ Len(deltas) = Len(ImportedCalls) + (IF phase = "DONE" THEN 1 ELSE 0)
    /\ \A i \in 1..Len(ImportedCalls) :
          deltas[i] = Delta(entry, ImportedCalls[i].snap)
    /\ phase = "DONE" =>
          /\ result = deltas
          /\ result[Len(result)] = Delta(entry, make_snapshot(Emu))

\* C18 witness: the second run has ended by ExitProcess; the first run had
\* left two heap regions mapped, the second run's first allocation was
\* again based at 0x69690000 and its returned list holds its own three
\* Deltas only
C18_Witness_SecondRunStartsFresh ==
    /\ run = 2
    /\ phase = "DONE"
    /\ Len(entry.memory.maps) = 2
    /\ entry.memory.maps[2].va > HeapBase
    /\ Len(hooked) = 2
    /\ Serviced(hooked[1])
    /\ hooked[1].va = HeapBase
    /\ hooked[2].callname = "kernel32.ExitProcess"
    /\ Len(maps) = 3
    /\ Len(result) = 3
    /\ result[1].pre_snap = entry

-----------------------------------------------------------------------------
(* Termination of a run (SpecLive) *)

\* the ways driver.runToVa ends, as the phases of the orchestrator
Terminated == {"returned", "StopEmulation"}
Faulted == EngineFaults
Escaped == {"InstructionRangeExceededError"}

\* C19: every run eventually reaches DONE.  While RUNNING no outcome is
\* set; the run leaves RUNNING with exactly one outcome, which is
\* TERMINATED (return address reached, stop signal), FAULTED or ESCAPED, and
\* is then DONE with the final Delta appended to the returned list; never
\* more than max_instruction_count instructions are emulated, and a run
\* ends ESCAPED exactly with the budget used up away from the return
\* address.
C19_EveryRunReachesDone ==
    /\ [](icount <= MaxInstr)
    /\ [](phase \in {"RUNNING", "DONE"})
    /\ [](phase = "RUNNING" <=> outcome = "none")
    /\ [](phase = "DONE" =>
            /\ outcome \in Terminated \cup Faulted \cup Escaped
            /\ result = deltas
            /\ result # <<>>
            /\ result[Len(result)] = Delta(pre_snap, make_snapshot(Emu)))
    /\ [](outcome \in Escaped => icount = MaxInstr /\ pc # return_address)
    /\ [](outcome = "returned" => pc = return_address)
    /\ [][phase # "RUNNING" => phase' = phase /\ outcome' = outcome]_vars
    /\ <>(phase = "DONE")

\* C19 witness: a run that never reached the return address, never faulted
\* and was never stopped has ended ESCAPED with the whole budget used, and
\* the final Delta is in the returned list
C19_Witness_BudgetUsedUp ==
    /\ phase = "DONE"
    /\ outcome = "InstructionRangeExceededError"
    /\ logged = "Halting as emulation has escaped!"
    /\ icount = MaxInstr
    /\ pc # return_address
    /\ result # <<>>
    /\ result[Len(result)].post_snap = make_snapshot(Emu)

-----------------------------------------------------------------------------
(* The collector and the shims on one call (Spec) *)

\* the number of heap regions the calls before call c had mapped
RegionsBefore(c) ==
    Cardinality({j \in 1..Len(hooked) :
                    hooked[j].at < c.at /\ hooked[j].newmaps # <<>>})

\* C20: the collector is the first hook of the chain and returns None for
\* every call, so the Delta of the i-th imported call carries the state in
\* which the hook chain was entered: the program counter at the imported
\* target (the call's return not executed), only the regions of earlier
\* calls mapped, the base a shim then returns being the cursor of that
\* state; and every imported call went on to the hook that recognizes its
\* name, or through the whole chain if none does.
C20_CollectorRunsBeforeShims ==
    /\ HookOrder[1] = "DeltaCollectorHook"
    /\ \A callname \in CallNames :
          CallHook("DeltaCollectorHook", CallOf(callname), Emu).ret = "None"
    /\ Len(deltas) >= Len(ImportedCalls)
    /\ \A i \in 1..Len(ImportedCalls) :
          LET c == ImportedCalls[i]
              post == deltas[i].post_snap
          IN  /\ post = c.snap
              /\ post.pc = c.target
              /\ Len(post.memory.maps) = RegionsBefore(c)
              /\ Serviced(c) =>
                    /\ c.va = c.before[c.by]
                    /\ c.newmaps # <<>>
              /\ \A h \in Shims : c.callname \in Recognized(h) => c.by = h
              /\ c.callname = "kernel32.GetProcessHeap" =>
                    c.by = "GetProcessHeapHook" /\ c.ret = "True"
              /\ c.callname = "kernel32.ExitProcess" =>
                    c.by = "ExitProcessHook" /\ c.ret = "StopEmulation"
              /\ c.callname = "kernel32.Sleep" => c.ret = "unhandled"

\* C20 witness: two imported allocation calls were recorded and serviced;
\* the first Delta shows no heap region, the second only the first call's,
\* both with the program counter at the imported target, while the engine
\* has returned from the calls and holds both regions
C20_Witness_DeltaBeforeAllocation ==
    /\ Len(ImportedCalls) = 2
    /\ Serviced(ImportedCalls[1])
    /\ Serviced(ImportedCalls[2])
    /\ deltas[1].post_snap.memory.maps = <<>>
    /\ Len(deltas[2].post_snap.memory.maps) = 1
    /\ deltas[2].post_snap.pc = Image.import_va
    /\ Len(maps) = 2
    /\ pc # Image.import_va

====
